---- MODULE Spec2Model ----
(***************************************************************************)
(* Conversation flow session client of the chat widget.                    *)
(*                                                                         *)
(* The same protocol client is written three times: EmbedChat              *)
(* (src/pages/embed.tsx), ChatBot (src/components/ChatBot.tsx) and         *)
(* PublicBotChatPage (src/components/EmbedCustomizer.tsx).  The variable   *)
(* `surface` says which of the three components is mounted; the React      *)
(* state of the mounted component is the state of the model.               *)
(*                                                                         *)
(* React runs every event handler to completion and re-renders before the  *)
(* next discrete event is delivered, so a handler reads the state of the   *)
(* last render; the code after an `await` only uses functional updates     *)
(* (setMessages(prev => ...)) and constant sets.  One action is therefore  *)
(* one user event (up to the first await) or one resolution of a pending   *)
(* call (the code after the await, with its catch and finally blocks).     *)
(*                                                                         *)
(* JS values: the empty string stands for null / undefined / "" wherever   *)
(* the code only tests truthiness; a null awaiting-input descriptor is     *)
(* NoPause.  Speech-to-text input and the customization channel are not    *)
(* modelled: they only change `input` and styling.                         *)
(***************************************************************************)
EXTENDS Integers, Sequences, FiniteSets, TLC

(***************************************************************************)
(* Bounds of the model.                                                    *)
(***************************************************************************)
MaxLog == 6          \* events in the log: a submission is accepted only
                     \* while its events and those of its response fit

(***************************************************************************)
(* Fixed texts of the source.                                              *)
(***************************************************************************)
GreetingText == "Hello! I'm here to help. What would you like to know?"
StartFinishedText == "Feel free to ask me any questions!"
StepFinishedText ==
    "Thank you! The conversation flow has ended. Feel free to ask me any questions!"
ConnectApologyText ==
    "Sorry, I'm having trouble connecting right now. Please try again."
WentWrongText == "Something went wrong. Please try again."
AskApologyText == "I'm having trouble answering that. Please try again."
NoAnswerText == "I couldn't find an answer to that question."
PreviewReplyText ==
    "This is a preview response. Your actual bot will respond based on your training data."
PreviewUserText == "This is a preview of a user message"
PreviewBotText ==
    "This is how my responses will look with your customized colors!"
RedirectPrefix == "Redirecting to: "

Surfaces == {"embed", "chatbot", "public"}

(***************************************************************************)
(* Message ids.  Date.now() is the clock `now`; the clock advances while a *)
(* call or a timer is pending.  Math.random() is `r`: the draws of one     *)
(* session are taken to be pairwise distinct (r = number of the draw);     *)
(* r = 0 is an id without a random suffix.  Constant ids ("init",          *)
(* "bot-preview-1", ...) have t = -1.                                      *)
(***************************************************************************)
MkId_noRandom(t, r) == [t |-> t, r |-> 0]

MkId(t, r) == [t |-> t, r |-> r]
InitId == MkId(-1, 0)
PreviewIds == <<MkId(-1, 1), MkId(-1, 2), MkId(-1, 3)>>

(***************************************************************************)
(* interface Message.  hasOptions = FALSE: the branchOptions property is   *)
(* absent; selectedBranch = "": not selected.                              *)
(***************************************************************************)
Msg(id, from, text, confirm, branch, hasOpts, opts) ==
    [id |-> id, from |-> from, text |-> text,
     showConfirmationButtons |-> confirm,
     showBranchOptions |-> branch,
     hasOptions |-> hasOpts,
     branchOptions |-> opts,
     selectedBranch |-> ""]

UserMsg(id, text) == Msg(id, "user", text, FALSE, FALSE, FALSE, <<>>)
BotMsg(id, text) == Msg(id, "bot", text, FALSE, FALSE, FALSE, <<>>)

(***************************************************************************)
(* The awaiting-input descriptor of a response envelope, kept whole in     *)
(* currentPausedFor.                                                       *)
(***************************************************************************)
Pause(type, scb) == [present |-> TRUE, type |-> type, showConfirmationButtons |-> scb]
NoPause == [present |-> FALSE, type |-> "", showConfirmationButtons |-> FALSE]

Descriptors ==
    {NoPause, Pause("branch", FALSE), Pause("confirmation", FALSE),
     Pause("confirmation", TRUE), Pause("question", FALSE)}

(***************************************************************************)
(* Raw messages of the backend.                                            *)
(***************************************************************************)
Raw(type, content, message, awaiting, options) ==
    [type |-> type, content |-> content, message |-> message,
     awaitingInput |-> awaiting, options |-> options]

RedirectMsg == Raw("redirect", "Redirecting to: https://x", "", FALSE, <<>>)
BranchMsg == Raw("branch", "", "", TRUE, <<"A", "B">>)
ConfirmMsg == Raw("confirmation", "Sure?", "", TRUE, <<>>)
TextMsg == Raw("text", "Hi", "", FALSE, <<>>)

(***************************************************************************)
(* A start / respond exchange as the client sees it.                       *)
(*   net       FALSE: fetch rejects or res.json() throws                   *)
(*   ok        res.ok                                                      *)
(*   iterable  FALSE: data.messages is present but has no forEach          *)
(***************************************************************************)
FlowResponse(net, ok, sid, iterable, msgs, awaiting, finished) ==
    [net |-> net, ok |-> ok, sessionId |-> sid, iterable |-> iterable,
     messages |-> msgs, awaitingInput |-> awaiting, finished |-> finished]

FlowFailure == FlowResponse(FALSE, FALSE, "", TRUE, <<>>, NoPause, FALSE)

\* <<messages, awaitingInput>> of the steps of a flow that goes on: the
\* prompts of the three node kinds, a step without a prompt, and envelopes
\* whose descriptor does not match the flagged message
StepShapes ==
    {<<(<<TextMsg>>), Pause("question", FALSE)>>,
     <<(<<RedirectMsg, TextMsg>>), Pause("question", FALSE)>>,
     <<(<<ConfirmMsg>>), Pause("confirmation", FALSE)>>,
     <<(<<ConfirmMsg>>), Pause("confirmation", TRUE)>>,
     <<(<<BranchMsg>>), Pause("branch", FALSE)>>,
     <<(<<BranchMsg>>), Pause("question", FALSE)>>,
     <<(<<BranchMsg>>), NoPause>>,
     <<(<<TextMsg>>), NoPause>>,
     <<(<<>>), NoPause>>}

\* <<messages, awaitingInput>> of the steps that end the flow
FinalShapes ==
    {<<(<<TextMsg>>), NoPause>>,
     <<(<<>>), NoPause>>,
     <<(<<BranchMsg>>), Pause("branch", FALSE)>>,
     <<(<<ConfirmMsg>>), Pause("confirmation", FALSE)>>}

GoodFlowResponses ==
    {FlowResponse(TRUE, TRUE, "s1", TRUE, p[1], p[2], FALSE) : p \in StepShapes}
    \cup {FlowResponse(TRUE, TRUE, "s1", TRUE, p[1], p[2], TRUE) : p \in FinalShapes}

StartResponses ==
    GoodFlowResponses
    \cup {FlowFailure,
          FlowResponse(TRUE, TRUE, "", TRUE, <<BranchMsg>>, Pause("branch", FALSE), FALSE),
          FlowResponse(TRUE, FALSE, "s1", TRUE, <<TextMsg>>, Pause("question", FALSE), FALSE),
          FlowResponse(TRUE, TRUE, "s1", FALSE, <<>>, Pause("question", FALSE), FALSE)}

RespondResponses ==
    GoodFlowResponses
    \cup {FlowFailure,
          FlowResponse(TRUE, FALSE, "", TRUE, <<TextMsg>>, Pause("question", FALSE), TRUE),
          FlowResponse(TRUE, TRUE, "", FALSE, <<>>, Pause("question", FALSE), TRUE)}

(***************************************************************************)
(* An ask exchange: { result: { answer } } | { error }.                    *)
(***************************************************************************)
AskResponse(net, ok, hasResult, answer) ==
    [net |-> net, ok |-> ok, hasResult |-> hasResult, answer |-> answer]

AskResponses ==
    {AskResponse(TRUE, TRUE, TRUE, "42"),
     AskResponse(TRUE, TRUE, TRUE, ""),
     AskResponse(TRUE, TRUE, FALSE, ""),
     AskResponse(TRUE, FALSE, FALSE, ""),
     AskResponse(FALSE, FALSE, FALSE, "")}

(***************************************************************************)
(* Text typed into the input box, and String.prototype.trim on it.         *)
(***************************************************************************)
Inputs == {"", " ", " q "}

Trim(s) ==
    CASE s = " " -> ""
      [] s = " q " -> "q"
      [] OTHER -> s

ConfirmAnswers == {"yes", "no"}

(***************************************************************************)
(* Flow Response Normalizer: the forEach over data.messages.               *)
(***************************************************************************)
\* msg.content?.replace("Redirecting to: ", "") on the contents of the model
StripRedirectPrefix(content) ==
    CASE content = "Redirecting to: https://x" -> "https://x"
      [] content = RedirectPrefix -> ""
      [] OTHER -> content

RedirectUrl_raw(msg) == msg.content

\* const url = msg.content?.replace(...) || msg.content
RedirectUrl(msg) ==
    IF StripRedirectPrefix(msg.content) # ""
    THEN StripRedirectPrefix(msg.content)
    ELSE msg.content

NormalizeMessage_noFallback(msg, id) ==
    IF msg.type = "branch" /\ msg.awaitingInput
    THEN Msg(id, "bot", "", FALSE, TRUE, TRUE, msg.options)
    ELSE Msg(id, "bot", msg.content,
             msg.type = "confirmation" /\ msg.awaitingInput,
             FALSE, TRUE, msg.options)

NormalizeMessage_keepsContent(msg, id) ==
    Msg(id, "bot",
        IF msg.content # "" THEN msg.content ELSE msg.message,
        msg.type = "confirmation" /\ msg.awaitingInput,
        msg.type = "branch" /\ msg.awaitingInput, TRUE, msg.options)

\* the event pushed for a message that is not a redirect
NormalizeMessage(msg, id) ==
    IF msg.type = "branch" /\ msg.awaitingInput
    THEN Msg(id, "bot", "", FALSE, TRUE, TRUE, msg.options)
    ELSE Msg(id, "bot",
             IF msg.content # "" THEN msg.content ELSE msg.message,
             msg.type = "confirmation" /\ msg.awaitingInput,
             FALSE, TRUE, msg.options)

\* events and window.open calls of a message list read at time t, after
\* r draws of Math.random()
RECURSIVE NormalizeMessages(_, _, _)
NormalizeMessages(msgs, t, r) ==
    IF msgs = <<>>
    THEN [events |-> <<>>, opened |-> <<>>, draws |-> r]
    ELSE IF Head(msgs).type = "redirect"
         THEN LET rest == NormalizeMessages(Tail(msgs), t, r)
              IN  [events |-> rest.events,
                   opened |-> (IF RedirectUrl(Head(msgs)) # ""
                               THEN <<RedirectUrl(Head(msgs))>>
                               ELSE <<>>) \o rest.opened,
                   draws |-> rest.draws]
         ELSE LET rest == NormalizeMessages(Tail(msgs), t, r + 1)
              IN  [events |-> <<NormalizeMessage(Head(msgs), MkId(t, r + 1))>>
                              \o rest.events,
                   opened |-> rest.opened,
                   draws |-> rest.draws]

(***************************************************************************)
(* State.                                                                  *)
(***************************************************************************)
VARIABLES
    surface,            \* which component is mounted
    isPreview,          \* embed.tsx: searchParams.get("preview") === "true"
    botLoaded,          \* botData (embed) / bot (public page, ChatBot prop) is set
    messages,           \* useState<Message[]>
    input,              \* input / inputMessage
    isLoading,
    currentPausedFor,
    sessionId,
    flowFinished,
    requests,           \* every call and timer started so far, in order
    pending,            \* indices of requests that have not resolved yet
    now,                \* Date.now()
    draws,              \* number of Math.random() draws so far
    opened,             \* URLs passed to window.open, in order
    uncaught,           \* an exception left a handler through no catch block
    last                \* the event handled by the last step

\* the state of the Sessions page (src/pages/Sessions.tsx)
VARIABLES
    sessions,           \* useState<Session[]>
    selectedSession,    \* useState<Session | null>
    loading,
    summary,            \* the lines of the summary; <<>> is ""
    summarizing,
    summarizerError,
    showSummary,
    sessionCalls        \* the calls of the page that have not resolved yet

sessionsVars == <<sessions, selectedSession, loading, summary, summarizing,
                  summarizerError, showSummary, sessionCalls>>

vars == <<surface, isPreview, botLoaded, messages, input, isLoading,
          currentPausedFor, sessionId, flowFinished, requests, pending,
          now, draws, opened, uncaught, last, sessionsVars>>

\* a call of the transport adapter, or the preview timer
Call(kind, sid, field, value) ==
    [kind |-> kind, sessionId |-> sid, field |-> field, value |-> value]

NoAsk == AskResponse(FALSE, FALSE, FALSE, "")

\* op: the event; arg: the text it carries; target: the message (user event)
\* or the request (resolution) it is about; flow, ask: the response resolved
Last(op, arg, target, flow, ask) ==
    [op |-> op, arg |-> arg, target |-> target, flow |-> flow, ask |-> ask]

PendingCalls(kinds) == {i \in pending : requests[i].kind \in kinds}

\* selectedSession = null
NoSession == [id |-> "", messages |-> <<>>]

\* the useState initial values of the Sessions page
SessionsUnmounted ==
    /\ sessions = <<>>
    /\ selectedSession = NoSession
    /\ loading = FALSE
    /\ summary = <<>>
    /\ summarizing = FALSE
    /\ summarizerError = ""
    /\ showSummary = FALSE
    /\ sessionCalls = {}

PreviewMessages ==
    <<BotMsg(PreviewIds[1], GreetingText),
      UserMsg(PreviewIds[2], PreviewUserText),
      BotMsg(PreviewIds[3], PreviewBotText)>>

(***************************************************************************)
(* Mount.  EmbedChat and PublicBotChatPage first fetch the bot; ChatBot    *)
(* gets it as a prop and starts the flow in its mount effect.  In preview  *)
(* mode EmbedChat shows three canned messages and starts nothing.          *)
(***************************************************************************)
Init ==
    /\ surface \in Surfaces
    /\ isPreview \in BOOLEAN
    /\ isPreview => surface = "embed"
    /\ botLoaded = (surface = "chatbot")
    /\ messages = IF isPreview THEN PreviewMessages ELSE <<>>
    /\ input = ""
    /\ isLoading = FALSE
    /\ currentPausedFor = NoPause
    /\ sessionId = ""
    /\ flowFinished = FALSE
    /\ requests = IF isPreview THEN <<>>
                  ELSE IF surface = "chatbot" THEN <<Call("start", "", "", "")>>
                  ELSE <<Call("fetchBot", "", "", "")>>
    /\ pending = DOMAIN requests
    /\ now = 0
    /\ draws = 0
    /\ opened = <<>>
    /\ uncaught = FALSE
    /\ last = Last("mount", "", 0, FlowFailure, NoAsk)
    /\ SessionsUnmounted

(***************************************************************************)
(* Pieces shared by the handlers.                                          *)
(***************************************************************************)
Issue_twice(c) ==
    /\ requests' = Append(Append(requests, c), c)
    /\ pending' = pending \cup {Len(requests) + 1, Len(requests) + 2}

\* fetch(...) or setTimeout(...): one more call is pending
Issue(c) ==
    /\ requests' = Append(requests, c)
    /\ pending' = pending \cup {Len(requests) + 1}

\* an early `return`: nothing but the messages passed in is set
Return(msgs) ==
    /\ messages' = msgs
    /\ UNCHANGED <<input, isLoading, currentPausedFor, sessionId,
                   flowFinished, requests, pending>>

(***************************************************************************)
(* EmbedChat (src/pages/embed.tsx), up to the first await.  msgs is the    *)
(* message list the functional updates of the handler apply to.            *)
(***************************************************************************)
handleAskQuestion_noUserEvent(msgs) ==
    LET question == Trim(input) IN
    IF question = "" \/ isLoading
    THEN Return(msgs)
    ELSE /\ messages' = msgs
         /\ input' = ""
         /\ isLoading' = TRUE
         /\ Issue(Call("ask", "", "question", question))
         /\ UNCHANGED <<currentPausedFor, sessionId, flowFinished>>

handleAskQuestion(msgs) ==
    LET question == Trim(input) IN
    IF question = "" \/ isLoading
    THEN Return(msgs)
    ELSE /\ messages' = Append(msgs, UserMsg(MkId(now, 0), question))
         /\ input' = ""
         /\ isLoading' = TRUE
         /\ Issue(Call("ask", "", "question", question))
         /\ UNCHANGED <<currentPausedFor, sessionId, flowFinished>>

PreviewSend_notLoading(msgs, messageToSend) ==
    /\ messages' = Append(msgs, UserMsg(MkId(now, 0), messageToSend))
    /\ input' = ""
    /\ isLoading' = FALSE
    /\ Issue(Call("timer", "", "", ""))
    /\ UNCHANGED <<currentPausedFor, sessionId, flowFinished>>

\* the preview branch of handleSendMessage
PreviewSend(msgs, messageToSend) ==
    /\ messages' = Append(msgs, UserMsg(MkId(now, 0), messageToSend))
    /\ input' = ""
    /\ isLoading' = TRUE
    /\ Issue(Call("timer", "", "", ""))
    /\ UNCHANGED <<currentPausedFor, sessionId, flowFinished>>

FlowSend_keepsPause(msgs, messageToSend, isBranchOption) ==
    /\ messages' = Append(msgs, UserMsg(MkId(now, 0), messageToSend))
    /\ input' = ""
    /\ isLoading' = TRUE
    /\ Issue(Call("respond", sessionId,
                  IF currentPausedFor.type = "branch" \/ isBranchOption
                  THEN "optionIndexOrLabel" ELSE "input",
                  messageToSend))
    /\ UNCHANGED <<currentPausedFor, sessionId, flowFinished>>

\* the flow branch of handleSendMessage: optimistic effects and the request
FlowSend(msgs, messageToSend, isBranchOption) ==
    /\ currentPausedFor' = NoPause
    /\ messages' = Append(msgs, UserMsg(MkId(now, 0), messageToSend))
    /\ input' = ""
    /\ isLoading' = TRUE
    /\ Issue(Call("respond", sessionId,
                  IF currentPausedFor.type = "branch" \/ isBranchOption
                  THEN "optionIndexOrLabel" ELSE "input",
                  messageToSend))
    /\ UNCHANGED <<sessionId, flowFinished>>

handleSendMessage_noLoadingGuard(msgs, overrideInput, isBranchOption) ==
    LET messageToSend == IF overrideInput # "" THEN overrideInput ELSE Trim(input) IN
    IF messageToSend = "" THEN Return(msgs)
    ELSE IF isPreview THEN PreviewSend(msgs, messageToSend)
    ELSE IF flowFinished THEN handleAskQuestion(msgs)
    ELSE IF sessionId = "" THEN Return(msgs)
    ELSE FlowSend(msgs, messageToSend, isBranchOption)

handleSendMessage_noQnA(msgs, overrideInput, isBranchOption) ==
    LET messageToSend == IF overrideInput # "" THEN overrideInput ELSE Trim(input) IN
    IF messageToSend = "" \/ isLoading THEN Return(msgs)
    ELSE IF isPreview THEN PreviewSend(msgs, messageToSend)
    ELSE IF sessionId = "" THEN Return(msgs)
    ELSE FlowSend(msgs, messageToSend, isBranchOption)

handleSendMessage(msgs, overrideInput, isBranchOption) ==
    LET messageToSend == IF overrideInput # "" THEN overrideInput ELSE Trim(input) IN
    IF messageToSend = "" \/ isLoading THEN Return(msgs)
    ELSE IF isPreview THEN PreviewSend(msgs, messageToSend)
    ELSE IF flowFinished THEN handleAskQuestion(msgs)
    ELSE IF sessionId = "" THEN Return(msgs)
    ELSE FlowSend(msgs, messageToSend, isBranchOption)

\* setMessages(prev => prev.map(msg => msg.id === messageId ? {...} : msg))
SelectBranch(msgs, option, messageId) ==
    [i \in DOMAIN msgs |->
        IF msgs[i].id = messageId
        THEN [msgs[i] EXCEPT !.selectedBranch = option]
        ELSE msgs[i]]

handleConfirmationClick_asOption(answer) ==
    handleSendMessage(messages, answer, TRUE)

handleConfirmationClick(answer) ==
    handleSendMessage(messages, answer, FALSE)

handleBranchOptionClick(option, messageId) ==
    handleSendMessage(SelectBranch(messages, option, messageId), option, TRUE)

(***************************************************************************)
(* ChatBot (src/components/ChatBot.tsx), up to the first await.            *)
(***************************************************************************)
ChatBot_handleAskQuestion(msgs) ==
    LET question == Trim(input) IN
    IF question = "" \/ isLoading
    THEN Return(msgs)
    ELSE /\ messages' = Append(msgs, UserMsg(MkId(now, 0), question))
         /\ input' = ""
         /\ isLoading' = TRUE
         /\ Issue(Call("ask", "", "question", question))
         /\ UNCHANGED <<currentPausedFor, sessionId, flowFinished>>

ChatBot_handleSendMessage(msgs, overrideInput, isBranchOption) ==
    LET messageToSend == IF overrideInput # "" THEN overrideInput ELSE Trim(input) IN
    IF flowFinished THEN ChatBot_handleAskQuestion(msgs)
    ELSE IF messageToSend = "" \/ isLoading \/ sessionId = "" THEN Return(msgs)
    ELSE FlowSend(msgs, messageToSend, isBranchOption)

ChatBot_handleConfirmationClick(answer) ==
    ChatBot_handleSendMessage(messages, answer, FALSE)

ChatBot_handleBranchOptionClick(option, messageId) ==
    ChatBot_handleSendMessage(SelectBranch(messages, option, messageId), option, TRUE)

ChatBot_canSendText ==
    \/ flowFinished
    \/ /\ currentPausedFor.present
       /\ currentPausedFor.type # "branch"
       /\ ~currentPausedFor.showConfirmationButtons

(***************************************************************************)
(* PublicBotChatPage (src/components/EmbedCustomizer.tsx), up to the first *)
(* await.                                                                  *)
(***************************************************************************)
PublicBotChatPage_handleAskQuestion(msgs) ==
    LET question == Trim(input) IN
    IF question = "" \/ isLoading
    THEN Return(msgs)
    ELSE /\ messages' = Append(msgs, UserMsg(MkId(now, 0), question))
         /\ input' = ""
         /\ isLoading' = TRUE
         /\ Issue(Call("ask", "", "question", question))
         /\ UNCHANGED <<currentPausedFor, sessionId, flowFinished>>

PublicBotChatPage_handleSendMessage(msgs, overrideInput, isBranchOption) ==
    LET messageToSend == IF overrideInput # "" THEN overrideInput ELSE Trim(input) IN
    IF flowFinished THEN PublicBotChatPage_handleAskQuestion(msgs)
    ELSE IF messageToSend = "" \/ isLoading \/ sessionId = "" THEN Return(msgs)
    ELSE FlowSend(msgs, messageToSend, isBranchOption)

PublicBotChatPage_handleConfirmationClick(answer) ==
    PublicBotChatPage_handleSendMessage(messages, answer, FALSE)

PublicBotChatPage_handleBranchOptionClick(option, messageId) ==
    PublicBotChatPage_handleSendMessage(SelectBranch(messages, option, messageId),
                                        option, TRUE)

PublicBotChatPage_canSendText ==
    \/ flowFinished
    \/ /\ currentPausedFor.present
       /\ currentPausedFor.type # "branch"
       /\ ~currentPausedFor.showConfirmationButtons

(***************************************************************************)
(* What is rendered, and which controls take events.                       *)
(***************************************************************************)
isAwaitingInput == currentPausedFor.present

canSendText_noBranchTest ==
    \/ isPreview
    \/ flowFinished
    \/ /\ isAwaitingInput
       /\ ~currentPausedFor.showConfirmationButtons

canSendText ==
    \/ isPreview
    \/ flowFinished
    \/ /\ isAwaitingInput
       /\ currentPausedFor.type # "branch"
       /\ ~currentPausedFor.showConfirmationButtons

\* canSendText of the mounted component
CanSendText ==
    CASE surface = "embed" -> canSendText
      [] surface = "chatbot" -> ChatBot_canSendText
      [] OTHER -> PublicBotChatPage_canSendText

\* <Input disabled={isLoading || !canSendText}>
InputDisabled == isLoading \/ ~CanSendText

\* <Button disabled={!input.trim() || isLoading || !canSendText}>
SendDisabled == Trim(input) = "" \/ isLoading \/ ~CanSendText

ConfirmationButtonsShown_noAwaitTest(msg) ==
    /\ msg.showConfirmationButtons
    /\ msg.from = "bot"
    /\ ~flowFinished

\* the Yes / No buttons of a message are rendered
ConfirmationButtonsShown(msg) ==
    /\ msg.showConfirmationButtons
    /\ isAwaitingInput
    /\ msg.from = "bot"
    /\ ~flowFinished

\* the option buttons of a message are rendered
BranchButtonsShown(msg) ==
    /\ msg.showBranchOptions
    /\ msg.from = "bot"
    /\ msg.hasOptions

BranchButtonDisabled_never(msg) == FALSE

\* <Button disabled={!!msg.selectedBranch}>
BranchButtonDisabled(msg) == msg.selectedBranch # ""

(***************************************************************************)
(* EmbedChat, the code after an await: try / catch / finally.              *)
(***************************************************************************)
\* a flow exchange throws inside the try block of initFlow
StartThrows(r) == ~r.net \/ ~r.iterable

RespondThrows_noOkCheck(r) == ~r.net \/ ~r.iterable

\* a flow exchange throws inside the try block of handleSendMessage
RespondThrows(r) == ~r.net \/ ~r.ok \/ ~r.iterable

\* an ask exchange throws inside the try block of handleAskQuestion
AskThrows(r) == ~r.net \/ ~r.ok \/ ~r.hasResult

initFlow_keepsPause(r, t) ==
    LET n == NormalizeMessages(r.messages, t, draws)
        botMessages ==
            IF r.finished
            THEN Append(n.events, BotMsg(MkId(t, n.draws + 1), StartFinishedText))
            ELSE n.events
    IN  /\ sessionId' = IF r.net /\ r.sessionId # "" THEN r.sessionId ELSE sessionId
        /\ IF StartThrows(r)
           THEN /\ messages' = <<BotMsg(InitId, GreetingText)>>
                /\ UNCHANGED <<flowFinished, currentPausedFor, draws, opened>>
           ELSE /\ flowFinished' = (flowFinished \/ r.finished)
                /\ currentPausedFor' = r.awaitingInput
                /\ messages' = botMessages
                /\ draws' = IF r.finished THEN n.draws + 1 ELSE n.draws
                /\ opened' = opened \o n.opened
        /\ UNCHANGED <<input, isLoading, uncaught>>

\* initFlow, from `const data = await res.json()` on; t is Date.now()
initFlow(r, t) ==
    LET n == NormalizeMessages(r.messages, t, draws)
        botMessages ==
            IF r.finished
            THEN Append(n.events, BotMsg(MkId(t, n.draws + 1), StartFinishedText))
            ELSE n.events
    IN  /\ sessionId' = IF r.net /\ r.sessionId # "" THEN r.sessionId ELSE sessionId
        /\ IF StartThrows(r)
           THEN /\ messages' = <<BotMsg(InitId, GreetingText)>>
                /\ UNCHANGED <<flowFinished, currentPausedFor, draws, opened>>
           ELSE /\ flowFinished' = (flowFinished \/ r.finished)
                /\ currentPausedFor' =
                       IF r.finished THEN NoPause ELSE r.awaitingInput
                /\ messages' = botMessages
                /\ draws' = IF r.finished THEN n.draws + 1 ELSE n.draws
                /\ opened' = opened \o n.opened
        /\ UNCHANGED <<input, isLoading, uncaught>>

\* the try block of handleSendMessage after `if (!res.ok) throw`
RespondTry_setsBatch(r, t) ==
    LET n == NormalizeMessages(r.messages, t, draws)
        botMessages ==
            IF r.finished
            THEN Append(n.events, BotMsg(MkId(t, n.draws + 1), StepFinishedText))
            ELSE n.events
    IN  /\ currentPausedFor' = IF r.finished THEN NoPause ELSE r.awaitingInput
        /\ flowFinished' = (flowFinished \/ r.finished)
        /\ messages' = botMessages
        /\ draws' = IF r.finished THEN n.draws + 1 ELSE n.draws
        /\ opened' = opened \o n.opened

RespondTry_pauseLast(r, t) ==
    LET n == NormalizeMessages(r.messages, t, draws)
        botMessages ==
            IF r.finished
            THEN Append(n.events, BotMsg(MkId(t, n.draws + 1), StepFinishedText))
            ELSE n.events
    IN  /\ currentPausedFor' = r.awaitingInput
        /\ flowFinished' = (flowFinished \/ r.finished)
        /\ messages' = messages \o botMessages
        /\ draws' = IF r.finished THEN n.draws + 1 ELSE n.draws
        /\ opened' = opened \o n.opened

RespondTry(r, t) ==
    LET n == NormalizeMessages(r.messages, t, draws)
        botMessages ==
            IF r.finished
            THEN Append(n.events, BotMsg(MkId(t, n.draws + 1), StepFinishedText))
            ELSE n.events
    IN  /\ currentPausedFor' = IF r.finished THEN NoPause ELSE r.awaitingInput
        /\ flowFinished' = (flowFinished \/ r.finished)
        /\ messages' = messages \o botMessages
        /\ draws' = IF r.finished THEN n.draws + 1 ELSE n.draws
        /\ opened' = opened \o n.opened

\* the catch block of handleSendMessage
RespondCatch(t) ==
    /\ messages' = Append(messages, BotMsg(MkId(t, draws + 1), ConnectApologyText))
    /\ draws' = draws + 1
    /\ UNCHANGED <<flowFinished, currentPausedFor, opened>>

handleSendMessageResolved_noFinally(r, t) ==
    /\ IF RespondThrows(r)
       THEN RespondCatch(t) /\ UNCHANGED isLoading
       ELSE RespondTry(r, t) /\ isLoading' = FALSE
    /\ UNCHANGED <<input, sessionId, uncaught>>

\* handleSendMessage, from `const data = await res.json()` on
handleSendMessageResolved(r, t) ==
    /\ IF RespondThrows(r) THEN RespondCatch(t) ELSE RespondTry(r, t)
    /\ isLoading' = FALSE
    /\ UNCHANGED <<input, sessionId, uncaught>>

handleAskQuestionResolved_resetsFlow(r, t) ==
    /\ messages' = Append(messages,
                          BotMsg(MkId(t, draws + 1),
                                 IF AskThrows(r) THEN AskApologyText
                                 ELSE IF r.answer # "" THEN r.answer
                                 ELSE NoAnswerText))
    /\ draws' = draws + 1
    /\ isLoading' = FALSE
    /\ flowFinished' = ~AskThrows(r)
    /\ UNCHANGED <<input, sessionId, currentPausedFor, opened, uncaught>>

handleAskQuestionResolved_toastOnly(r, t) ==
    /\ messages' = IF AskThrows(r) THEN messages
                   ELSE Append(messages,
                               BotMsg(MkId(t, draws + 1),
                                      IF r.answer # "" THEN r.answer
                                      ELSE NoAnswerText))
    /\ draws' = IF AskThrows(r) THEN draws ELSE draws + 1
    /\ isLoading' = FALSE
    /\ UNCHANGED <<input, sessionId, flowFinished, currentPausedFor, opened,
                   uncaught>>

\* handleAskQuestion, from `const data = await res.json()` on
handleAskQuestionResolved(r, t) ==
    /\ messages' = Append(messages,
                          BotMsg(MkId(t, draws + 1),
                                 IF AskThrows(r) THEN AskApologyText
                                 ELSE IF r.answer # "" THEN r.answer
                                 ELSE NoAnswerText))
    /\ draws' = draws + 1
    /\ isLoading' = FALSE
    /\ UNCHANGED <<input, sessionId, flowFinished, currentPausedFor, opened, uncaught>>

\* the setTimeout callback of the preview branch: id (Date.now() + 1).toString()
PreviewTimeout(t) ==
    /\ messages' = Append(messages, BotMsg(MkId(t + 1, 0), PreviewReplyText))
    /\ isLoading' = FALSE
    /\ UNCHANGED <<input, sessionId, flowFinished, currentPausedFor, draws, opened,
                   uncaught>>

(***************************************************************************)
(* ChatBot, the code after an await.  Its catch blocks raise a toast; the  *)
(* catch of initFlow adds no message.                                      *)
(***************************************************************************)
ChatBot_initFlow(r, t) ==
    LET n == NormalizeMessages(r.messages, t, draws)
        botMessages ==
            IF r.finished
            THEN Append(n.events, BotMsg(MkId(t, n.draws + 1), StartFinishedText))
            ELSE n.events
    IN  /\ sessionId' = IF r.net /\ r.sessionId # "" THEN r.sessionId ELSE sessionId
        /\ IF StartThrows(r)
           THEN UNCHANGED <<messages, flowFinished, currentPausedFor, draws, opened>>
           ELSE /\ flowFinished' = (flowFinished \/ r.finished)
                /\ currentPausedFor' =
                       IF r.finished THEN NoPause ELSE r.awaitingInput
                /\ messages' = botMessages
                /\ draws' = IF r.finished THEN n.draws + 1 ELSE n.draws
                /\ opened' = opened \o n.opened
        /\ UNCHANGED <<input, isLoading, uncaught>>

ChatBot_handleSendMessageResolved(r, t) ==
    LET n == NormalizeMessages(r.messages, t, draws)
        botMessages ==
            IF r.finished
            THEN Append(n.events, BotMsg(MkId(t, n.draws + 1), StepFinishedText))
            ELSE n.events
    IN  /\ IF RespondThrows(r)
           THEN /\ messages' = Append(messages,
                                      BotMsg(MkId(t, draws + 1), WentWrongText))
                /\ draws' = draws + 1
                /\ UNCHANGED <<flowFinished, currentPausedFor, opened>>
           ELSE /\ currentPausedFor' =
                       IF r.finished THEN NoPause ELSE r.awaitingInput
                /\ flowFinished' = (flowFinished \/ r.finished)
                /\ messages' = messages \o botMessages
                /\ draws' = IF r.finished THEN n.draws + 1 ELSE n.draws
                /\ opened' = opened \o n.opened
        /\ isLoading' = FALSE
        /\ UNCHANGED <<input, sessionId, uncaught>>

ChatBot_handleAskQuestionResolved(r, t) ==
    /\ messages' = Append(messages,
                          BotMsg(MkId(t, draws + 1),
                                 IF AskThrows(r) THEN AskApologyText
                                 ELSE IF r.answer # "" THEN r.answer
                                 ELSE NoAnswerText))
    /\ draws' = draws + 1
    /\ isLoading' = FALSE
    /\ UNCHANGED <<input, sessionId, flowFinished, currentPausedFor, opened, uncaught>>

(***************************************************************************)
(* PublicBotChatPage, the code after an await.                             *)
(***************************************************************************)
PublicBotChatPage_initFlow(r, t) ==
    LET n == NormalizeMessages(r.messages, t, draws)
        botMessages ==
            IF r.finished
            THEN Append(n.events, BotMsg(MkId(t, n.draws + 1), StartFinishedText))
            ELSE n.events
    IN  /\ sessionId' = IF r.net /\ r.sessionId # "" THEN r.sessionId ELSE sessionId
        /\ IF StartThrows(r)
           THEN UNCHANGED <<messages, flowFinished, currentPausedFor, draws, opened>>
           ELSE /\ flowFinished' = (flowFinished \/ r.finished)
                /\ currentPausedFor' =
                       IF r.finished THEN NoPause ELSE r.awaitingInput
                /\ messages' = botMessages
                /\ draws' = IF r.finished THEN n.draws + 1 ELSE n.draws
                /\ opened' = opened \o n.opened
        /\ UNCHANGED <<input, isLoading, uncaught>>

PublicBotChatPage_handleSendMessageResolved(r, t) ==
    LET n == NormalizeMessages(r.messages, t, draws)
        botMessages ==
            IF r.finished
            THEN Append(n.events, BotMsg(MkId(t, n.draws + 1), StepFinishedText))
            ELSE n.events
    IN  /\ IF RespondThrows(r)
           THEN /\ messages' = Append(messages,
                                      BotMsg(MkId(t, draws + 1), WentWrongText))
                /\ draws' = draws + 1
                /\ UNCHANGED <<flowFinished, currentPausedFor, opened>>
           ELSE /\ currentPausedFor' =
                       IF r.finished THEN NoPause ELSE r.awaitingInput
                /\ flowFinished' = (flowFinished \/ r.finished)
                /\ messages' = messages \o botMessages
                /\ draws' = IF r.finished THEN n.draws + 1 ELSE n.draws
                /\ opened' = opened \o n.opened
        /\ isLoading' = FALSE
        /\ UNCHANGED <<input, sessionId, uncaught>>

PublicBotChatPage_handleAskQuestionResolved(r, t) ==
    /\ messages' = Append(messages,
                          BotMsg(MkId(t, draws + 1),
                                 IF AskThrows(r) THEN AskApologyText
                                 ELSE IF r.answer # "" THEN r.answer
                                 ELSE NoAnswerText))
    /\ draws' = draws + 1
    /\ isLoading' = FALSE
    /\ UNCHANGED <<input, sessionId, flowFinished, currentPausedFor, opened, uncaught>>

(***************************************************************************)
(* Steps of the environment: the user and the network.                     *)
(***************************************************************************)
\* the chat is rendered (PublicBotChatPage renders it only with a bot)
ChatShown == surface = "public" => botLoaded

\* a response adds at most one event per non-redirect message and one
\* completion notice; an answer or a timer adds one event
MaxSettleEvents(c) == IF c.kind = "respond" THEN 2 ELSE 1

\* the cap on the log: a call is issued only if its response will fit
WithinBound ==
    Len(requests') > Len(requests) =>
        Len(messages') + MaxSettleEvents(requests'[Len(requests')]) <= MaxLog

UserFrame ==
    UNCHANGED <<surface, isPreview, botLoaded, now, draws, opened, uncaught,
                sessionsVars>>

\* onChange of the input box
TypeInput(v) ==
    /\ ChatShown
    /\ ~InputDisabled
    /\ v # input
    /\ input' = v
    /\ last' = Last("type", v, 0, FlowFailure, NoAsk)
    /\ UNCHANGED <<messages, isLoading, currentPausedFor, sessionId,
                   flowFinished, requests, pending>>
    /\ UserFrame

\* handleKeyPress: Enter in the (enabled) input box
KeyPressEnter ==
    /\ ChatShown
    /\ ~InputDisabled
    /\ CASE surface = "embed" -> handleSendMessage(messages, "", FALSE)
         [] surface = "chatbot" -> ChatBot_handleSendMessage(messages, "", FALSE)
         [] OTHER -> PublicBotChatPage_handleSendMessage(messages, "", FALSE)
    /\ WithinBound
    /\ last' = Last("enter", input, 0, FlowFailure, NoAsk)
    /\ UserFrame

\* onClick of the send button
ClickSend ==
    /\ ChatShown
    /\ ~SendDisabled
    /\ CASE surface = "embed" -> handleSendMessage(messages, "", FALSE)
         [] surface = "chatbot" -> ChatBot_handleSendMessage(messages, "", FALSE)
         [] OTHER -> PublicBotChatPage_handleSendMessage(messages, "", FALSE)
    /\ WithinBound
    /\ last' = Last("send", input, 0, FlowFailure, NoAsk)
    /\ UserFrame

\* onClick of Yes / No under message i
ClickConfirmation(i, answer) ==
    /\ ChatShown
    /\ ConfirmationButtonsShown(messages[i])
    /\ CASE surface = "embed" -> handleConfirmationClick(answer)
         [] surface = "chatbot" -> ChatBot_handleConfirmationClick(answer)
         [] OTHER -> PublicBotChatPage_handleConfirmationClick(answer)
    /\ WithinBound
    /\ last' = Last("confirm", answer, i, FlowFailure, NoAsk)
    /\ UserFrame

\* a click on option k of message i; a disabled button delivers no click
ClickBranchOption(i, k) ==
    /\ ChatShown
    /\ BranchButtonsShown(messages[i])
    /\ k \in DOMAIN messages[i].branchOptions
    /\ IF BranchButtonDisabled(messages[i])
       THEN /\ Return(messages)
            /\ last' = Last("branchDisabled", messages[i].branchOptions[k], i,
                            FlowFailure, NoAsk)
       ELSE /\ CASE surface = "embed" ->
                        handleBranchOptionClick(messages[i].branchOptions[k],
                                                messages[i].id)
                 [] surface = "chatbot" ->
                        ChatBot_handleBranchOptionClick(messages[i].branchOptions[k],
                                                        messages[i].id)
                 [] OTHER ->
                        PublicBotChatPage_handleBranchOptionClick(
                            messages[i].branchOptions[k], messages[i].id)
            /\ WithinBound
            /\ last' = Last("branch", messages[i].branchOptions[k], i,
                            FlowFailure, NoAsk)
    /\ UserFrame

\* fetchData (embed) resolves: outcome "bot", "nobot" (no result in the
\* body) or "error".  With a bot the start-flow effect runs.
FetchBotResolved(i, outcome) ==
    /\ i \in PendingCalls({"fetchBot"})
    /\ botLoaded' = (outcome = "bot")
    /\ messages' = IF outcome = "error" /\ surface = "embed"
                   THEN <<BotMsg(InitId, GreetingText)>>
                   ELSE messages
    /\ requests' = IF outcome = "bot"
                   THEN Append(requests, Call("start", "", "", ""))
                   ELSE requests
    /\ pending' = (pending \ {i}) \cup
                  (IF outcome = "bot" THEN {Len(requests) + 1} ELSE {})
    /\ now' = now + 1
    /\ last' = Last("fetchBot", outcome, i, FlowFailure, NoAsk)
    /\ UNCHANGED <<surface, isPreview, input, isLoading, currentPausedFor,
                   sessionId, flowFinished, draws, opened, uncaught,
                   sessionsVars>>

ResolveFrame(i) ==
    /\ pending' = pending \ {i}
    /\ now' = now + 1
    /\ UNCHANGED <<surface, isPreview, botLoaded, requests, sessionsVars>>

StartResolved(i, r) ==
    /\ i \in PendingCalls({"start"})
    /\ CASE surface = "embed" -> initFlow(r, now + 1)
         [] surface = "chatbot" -> ChatBot_initFlow(r, now + 1)
         [] OTHER -> PublicBotChatPage_initFlow(r, now + 1)
    /\ last' = Last("start", "", i, r, NoAsk)
    /\ ResolveFrame(i)

RespondResolved(i, r) ==
    /\ i \in PendingCalls({"respond"})
    /\ CASE surface = "embed" -> handleSendMessageResolved(r, now + 1)
         [] surface = "chatbot" -> ChatBot_handleSendMessageResolved(r, now + 1)
         [] OTHER -> PublicBotChatPage_handleSendMessageResolved(r, now + 1)
    /\ last' = Last("respond", "", i, r, NoAsk)
    /\ ResolveFrame(i)

AskResolved(i, r) ==
    /\ i \in PendingCalls({"ask"})
    /\ CASE surface = "embed" -> handleAskQuestionResolved(r, now + 1)
         [] surface = "chatbot" -> ChatBot_handleAskQuestionResolved(r, now + 1)
         [] OTHER -> PublicBotChatPage_handleAskQuestionResolved(r, now + 1)
    /\ last' = Last("ask", "", i, FlowFailure, r)
    /\ ResolveFrame(i)

TimerFired(i) ==
    /\ i \in PendingCalls({"timer"})
    /\ PreviewTimeout(now + 1)
    /\ last' = Last("timer", "", i, FlowFailure, NoAsk)
    /\ ResolveFrame(i)

Resolve ==
    \/ \E i \in pending, o \in {"bot", "nobot", "error"} : FetchBotResolved(i, o)
    \/ \E i \in pending, r \in StartResponses : StartResolved(i, r)
    \/ \E i \in pending, r \in RespondResponses : RespondResolved(i, r)
    \/ \E i \in pending, r \in AskResponses : AskResolved(i, r)
    \/ \E i \in pending : TimerFired(i)

UserAct ==
    \/ \E v \in Inputs : TypeInput(v)
    \/ KeyPressEnter
    \/ ClickSend
    \/ \E i \in DOMAIN messages, a \in ConfirmAnswers : ClickConfirmation(i, a)
    \/ \E i \in DOMAIN messages, k \in 1..2 : ClickBranchOption(i, k)

Next == UserAct \/ Resolve

Spec == Init /\ [][Next]_vars

\* every pending call eventually resolves, every timer eventually fires
LiveSpec == Spec /\ WF_vars(Resolve)

(***************************************************************************)
(* The normalizer on a wider set of raw messages.  NormSpec is one         *)
(* exchange of each kind: the start response, one typed answer and its     *)
(* response, with message lists drawn from RawUniverse.                    *)
(***************************************************************************)
\* the fields the forEach reads, in the combinations its branches tell apart
RawUniverse ==
    {Raw("redirect", "Redirecting to: https://x", "", FALSE, <<>>),
     Raw("redirect", "https://y", "", FALSE, <<>>),
     Raw("redirect", "Redirecting to: ", "", FALSE, <<>>),
     Raw("redirect", "", "M", TRUE, <<"A", "B">>),
     Raw("branch", "", "", TRUE, <<"A", "B">>),
     Raw("branch", "Pick", "M", TRUE, <<>>),
     Raw("branch", "Pick", "", FALSE, <<"A", "B">>),
     Raw("confirmation", "Sure?", "", TRUE, <<>>),
     Raw("confirmation", "", "M", FALSE, <<"A", "B">>),
     Raw("text", "Hi", "M", FALSE, <<>>),
     Raw("text", "", "", FALSE, <<>>),
     Raw("card", "", "M", TRUE, <<"A", "B">>)}

\* data.messages of up to two messages
NormLists ==
    {<<>>} \cup {<<a>> : a \in RawUniverse}
           \cup {<<a, b>> : a \in RawUniverse, b \in RawUniverse}

NormStartResponses ==
    {FlowResponse(TRUE, TRUE, "s1", TRUE, msgs, aw, fin) :
        msgs \in NormLists, aw \in {NoPause, Pause("question", FALSE)},
        fin \in BOOLEAN}

NormRespondResponses ==
    {FlowResponse(TRUE, TRUE, "", TRUE, msgs, NoPause, fin) :
        msgs \in NormLists, fin \in BOOLEAN}

NormInit == Init /\ ~isPreview

NormNext ==
    \/ \E i \in pending : FetchBotResolved(i, "bot")
    \/ \E i \in pending, r \in NormStartResponses : StartResolved(i, r)
    \/ TypeInput(" q ")
    \/ ClickSend /\ ~flowFinished
    \/ \E i \in pending, r \in NormRespondResponses : RespondResolved(i, r)

NormSpec == NormInit /\ [][NormNext]_vars

(***************************************************************************)
(* The Sessions page (src/pages/Sessions.tsx): the list of the sessions of *)
(* a bot, the replay of the selected one and its summary.  No chat         *)
(* component is mounted on this route.  A handler runs up to its first     *)
(* await in one step and from the resolution of the call in another; what  *)
(* it read from the state when it was called stays as it was read.         *)
(***************************************************************************)
SessionMsg(role, content) == [role |-> role, content |-> content]

Session(id, msgs) == [id |-> id, messages |-> msgs]

\* the history of the backend, as fetchSessions and selectSession map it:
\* two conversations and a session with no message yet
StoredSessions ==
    <<Session("A", <<SessionMsg("user", "hi"), SessionMsg("assistant", "hello")>>),
      Session("B", <<SessionMsg("user", "price?")>>),
      Session("C", <<>>)>>

StoredSession(id) ==
    CHOOSE s \in {StoredSessions[i] : i \in DOMAIN StoredSessions} : s.id = id

\* conversationText: one "User: ..." / "Assistant: ..." entry per message
ConversationText(msgs) ==
    [i \in DOMAIN msgs |->
        <<IF msgs[i].role = "user" THEN "User" ELSE "Assistant", msgs[i].content>>]

\* the summarizer (Chrome built-in or /api/summarize) is a function of the
\* conversation it is given; its key points are the entries of the text
Summarize(msgs) == ConversationText(msgs)

SummaryFailedText == "Failed to summarize conversation"

SessionCall(kind, session) == [kind |-> kind, session |-> session]

SessionsFrame ==
    UNCHANGED <<surface, isPreview, botLoaded, messages, input, isLoading,
                currentPausedFor, sessionId, flowFinished, requests, pending,
                now, draws, opened, uncaught>>

\* the page after its mount effects: fetchSessions has set loading and
\* awaits the list
SessionsInit ==
    /\ surface = "sessions"
    /\ isPreview = FALSE
    /\ botLoaded = FALSE
    /\ messages = <<>>
    /\ input = ""
    /\ isLoading = FALSE
    /\ currentPausedFor = NoPause
    /\ sessionId = ""
    /\ flowFinished = FALSE
    /\ requests = <<>>
    /\ pending = {}
    /\ now = 0
    /\ draws = 0
    /\ opened = <<>>
    /\ uncaught = FALSE
    /\ last = Last("mount", "", 0, FlowFailure, NoAsk)
    /\ sessions = <<>>
    /\ selectedSession = NoSession
    /\ loading = TRUE
    /\ summary = <<>>
    /\ summarizing = FALSE
    /\ summarizerError = ""
    /\ showSummary = FALSE
    /\ sessionCalls = {SessionCall("fetchSessions", NoSession)}

\* fetchSessions, from `const data = await res.json()` on
fetchSessionsResolved(ok) ==
    /\ sessions' = IF ok THEN StoredSessions ELSE sessions
    /\ loading' = FALSE
    /\ UNCHANGED <<selectedSession, summary, summarizing, summarizerError,
                   showSummary>>

\* selectSession up to its fetch
selectSession(id) ==
    /\ loading' = TRUE
    /\ summary' = <<>>
    /\ showSummary' = FALSE
    /\ summarizerError' = ""
    /\ sessionCalls' = sessionCalls \cup {SessionCall("select", Session(id, <<>>))}
    /\ UNCHANGED <<sessions, selectedSession, summarizing>>

\* selectSession, from `const data = await res.json()` on
selectSessionResolved(id, ok) ==
    /\ selectedSession' = IF ok THEN StoredSession(id) ELSE selectedSession
    /\ loading' = FALSE
    /\ UNCHANGED <<sessions, summary, summarizing, summarizerError, showSummary>>

\* summarizeSession up to its first await; the conversation text is built
\* from the selectedSession of the render the handler belongs to
summarizeSession ==
    IF selectedSession = NoSession \/ Len(selectedSession.messages) = 0
    THEN UNCHANGED sessionsVars
    ELSE /\ summarizing' = TRUE
         /\ summarizerError' = ""
         /\ summary' = <<>>
         /\ sessionCalls' = sessionCalls \cup {SessionCall("summarize", selectedSession)}
         /\ UNCHANGED <<sessions, selectedSession, loading, showSummary>>

\* summarizeSession, from the resolution of the summarizer on; outcome is
\* "summary", "empty" (a success with an empty text) or "error"
summarizeSessionResolved(session, outcome) ==
    /\ summary' = CASE outcome = "summary" -> Summarize(session.messages)
                    [] outcome = "empty" -> <<>>
                    [] OTHER -> summary
    /\ showSummary' = IF outcome = "error" THEN showSummary ELSE TRUE
    /\ summarizerError' = IF outcome = "error" THEN SummaryFailedText
                          ELSE summarizerError
    /\ summarizing' = FALSE
    /\ UNCHANGED <<sessions, selectedSession, loading>>

\* the list of the bot resolves
FetchSessionsResolved(c, ok) ==
    /\ c \in sessionCalls
    /\ c.kind = "fetchSessions"
    /\ fetchSessionsResolved(ok)
    /\ sessionCalls' = sessionCalls \ {c}
    /\ last' = Last("fetchSessions", "", 0, FlowFailure, NoAsk)
    /\ SessionsFrame

\* onClick of the card of session i; the cards are rendered while !loading
ClickSession(i) ==
    /\ ~loading
    /\ i \in DOMAIN sessions
    /\ selectSession(sessions[i].id)
    /\ last' = Last("select", sessions[i].id, i, FlowFailure, NoAsk)
    /\ SessionsFrame

SelectResolved(c, ok) ==
    /\ c \in sessionCalls
    /\ c.kind = "select"
    /\ selectSessionResolved(c.session.id, ok)
    /\ sessionCalls' = sessionCalls \ {c}
    /\ last' = Last("selectResolved", c.session.id, 0, FlowFailure, NoAsk)
    /\ SessionsFrame

\* onClick of "Summarize Conversation":
\* disabled={summarizing || selectedSession.messages.length === 0}
ClickSummarize ==
    /\ selectedSession # NoSession
    /\ ~summarizing
    /\ Len(selectedSession.messages) # 0
    /\ summarizeSession
    /\ last' = Last("summarize", selectedSession.id, 0, FlowFailure, NoAsk)
    /\ SessionsFrame

SummarizeResolved(c, outcome) ==
    /\ c \in sessionCalls
    /\ c.kind = "summarize"
    /\ summarizeSessionResolved(c.session, outcome)
    /\ sessionCalls' = sessionCalls \ {c}
    /\ last' = Last("summaryResolved", c.session.id, 0, FlowFailure, NoAsk)
    /\ SessionsFrame

\* onClick of the Hide button, rendered with a session while showSummary
ClickHideSummary ==
    /\ selectedSession # NoSession
    /\ showSummary
    /\ showSummary' = ~showSummary
    /\ last' = Last("hide", "", 0, FlowFailure, NoAsk)
    /\ UNCHANGED <<sessions, selectedSession, loading, summary, summarizing,
                   summarizerError, sessionCalls>>
    /\ SessionsFrame

SessionsNext ==
    \/ \E c \in sessionCalls, ok \in BOOLEAN : FetchSessionsResolved(c, ok)
    \/ \E i \in DOMAIN sessions : ClickSession(i)
    \/ \E c \in sessionCalls, ok \in BOOLEAN : SelectResolved(c, ok)
    \/ ClickSummarize
    \/ \E c \in sessionCalls, o \in {"summary", "empty", "error"} :
           SummarizeResolved(c, o)
    \/ ClickHideSummary

SessionsSpec == SessionsInit /\ [][SessionsNext]_vars

(***************************************************************************)
(* Properties.  In an action formula, last' describes the step taken.      *)
(***************************************************************************)
\* an event with its selectedBranch left out
Unselected(m) == [m EXCEPT !.selectedBranch = ""]

\* the requests started by the step
NewRequests == (DOMAIN requests') \ (DOMAIN requests)

FlowCalls == {"respond", "ask"}

\* C1: the event log is append-only: its length never decreases, no event
\* is removed or reordered, and only selectedBranch of an existing event
\* ever changes.
C1_AppendOnly ==
    [][/\ Len(messages') >= Len(messages)
       /\ \A i \in DOMAIN messages :
              Unselected(messages'[i]) = Unselected(messages[i])]_vars

\* a selection made before a later response was appended behind it
C1_Witness ==
    /\ last.op = "respond"
    /\ \E i \in DOMAIN messages :
           /\ messages[i].selectedBranch # ""
           /\ Len(messages) >= i + 2

\* C2: flowFinished is monotonic: once true, it is true in every later
\* state, whatever is submitted and however the calls resolve.
C2_FinishedMonotonic == [][flowFinished => flowFinished']_vars

\* a failed ask call settled after the flow had finished
C2_Witness ==
    /\ flowFinished
    /\ last.op = "ask"
    /\ ~last.ask.net

\* C3: selectedBranch of an event is set at most once: it never changes
\* once set, and a click on an option of an event that has a selection
\* appends nothing and starts no call.
C3_SelectedOnce ==
    [][/\ \A i \in DOMAIN messages :
              messages[i].selectedBranch # "" =>
                  /\ i \in DOMAIN messages'
                  /\ messages'[i].selectedBranch = messages[i].selectedBranch
       /\ (/\ last'.op \in {"branch", "branchDisabled"}
           /\ messages[last'.target].selectedBranch # "")
          => /\ messages' = messages
             /\ requests' = requests
             /\ pending' = pending]_vars

\* a second click, on the other option of an event that has a selection
C3_Witness ==
    /\ last.op = "branchDisabled"
    /\ messages[last.target].selectedBranch # ""
    /\ messages[last.target].selectedBranch # last.arg

\* C4: at most one respond / ask call is pending; while one is pending no
\* user event starts a call, and the pending call leaves only by resolving.
C4_SingleFlight ==
    /\ [](Cardinality(PendingCalls(FlowCalls)) <= 1)
    /\ [][PendingCalls(FlowCalls) # {} =>
              /\ requests' = requests
              /\ pending' \subseteq pending
              /\ pending' # pending => last'.op \in FlowCalls]_vars

\* an option clicked while the call of another submission is pending
C4_Witness ==
    /\ last.op = "branch"
    /\ \E i \in PendingCalls(FlowCalls) : requests[i].value # last.arg

\* C5: the resolution of a respond / ask call clears isLoading whether the
\* exchange succeeded, returned an error status or threw; if every pending
\* call resolves, isLoading = TRUE leads to isLoading = FALSE.
C5_LoadingCleared ==
    /\ [][last'.op \in FlowCalls => ~isLoading']_vars
    /\ (isLoading ~> ~isLoading)

\* a respond call whose body could not be read, settled
C5_Witness ==
    /\ last.op = "respond"
    /\ last.flow.net
    /\ ~last.flow.iterable
    /\ ~isLoading

\* the success path: the exchange delivered a body that the code reads
\* (initFlow does not look at the HTTP status)
FlowApplied(l) ==
    /\ l.op \in {"start", "respond"}
    /\ l.flow.net
    /\ l.flow.iterable
    /\ l.op = "respond" => l.flow.ok

NonRedirects(msgs) == {j \in DOMAIN msgs : msgs[j].type # "redirect"}

CompletionTexts == {StartFinishedText, StepFinishedText}

\* C6: when a start or respond response with finished = true is applied,
\* flowFinished is true and currentPausedFor is null, and the log ends with
\* exactly one non-empty completion event of the bot behind the events of
\* the response's messages, also when the response carries awaitingInput.
C6_FinishedApplied ==
    [][(FlowApplied(last') /\ last'.flow.finished) =>
          LET base == IF last'.op = "start" THEN 0 ELSE Len(messages)
              k == Cardinality(NonRedirects(last'.flow.messages))
          IN  /\ flowFinished'
              /\ currentPausedFor' = NoPause
              /\ Len(messages') = base + k + 1
              /\ SubSeq(messages', 1, base) = SubSeq(messages, 1, base)
              /\ messages'[base + k + 1].from = "bot"
              /\ messages'[base + k + 1].text \in CompletionTexts
              /\ messages'[base + k + 1].text # ""
              /\ \A j \in (base + 1)..(base + k) :
                     /\ messages'[j].from = "bot"
                     /\ messages'[j].text \notin CompletionTexts]_vars

\* a final step that carried a branch prompt and its descriptor
C6_Witness ==
    /\ last.op = "respond"
    /\ FlowApplied(last)
    /\ last.flow.finished
    /\ last.flow.awaitingInput.present
    /\ Len(last.flow.messages) > 0
    /\ flowFinished

\* C7: once flowFinished is true no respond call is started: every call
\* started from then on is askQuestion with the trimmed text of the input.
C7_QnAAfterFinished ==
    [][flowFinished =>
          \A i \in NewRequests :
              /\ requests'[i].kind = "ask"
              /\ requests'[i].value = Trim(input)]_vars

\* a question asked after the flow was finished by a respond step
C7_Witness ==
    /\ flowFinished
    /\ last.op \in {"enter", "send"}
    /\ PendingCalls({"ask"}) # {}
    /\ \E j \in DOMAIN requests : requests[j].kind = "respond"

\* an ask exchange that failed or carried no answer
AskFailed(r) == ~r.net \/ ~r.ok \/ ~r.hasResult \/ r.answer = ""

AskFallbackTexts == {AskApologyText, NoAnswerText}

\* C8: when askQuestion fails, exactly one fallback event of the bot is
\* appended behind the user event, no exception escapes, isLoading is
\* cleared.
C8_AskFailure ==
    [][(last'.op = "ask" /\ AskFailed(last'.ask)) =>
          /\ Len(messages') = Len(messages) + 1
          /\ SubSeq(messages', 1, Len(messages)) = messages
          /\ messages[Len(messages)].from = "user"
          /\ messages'[Len(messages')].from = "bot"
          /\ messages'[Len(messages')].text \in AskFallbackTexts
          /\ (~last'.ask.net \/ ~last'.ask.ok \/ ~last'.ask.hasResult)
                 => messages'[Len(messages')].text = AskApologyText
          /\ ~uncaught'
          /\ ~isLoading']_vars

\* an error status from the ask endpoint, settled
C8_Witness ==
    /\ last.op = "ask"
    /\ last.ask.net
    /\ ~last.ask.ok
    /\ messages[Len(messages)].text = AskApologyText

\* C9: an accepted ask submission appends exactly two events, the user
\* event at once and one event of the bot when the call resolves, and
\* leaves currentPausedFor (null), flowFinished (true) and sessionId alone.
C9_AskFrame ==
    [][/\ (\E i \in NewRequests : requests'[i].kind = "ask") =>
              /\ Len(messages') = Len(messages) + 1
              /\ \A j \in DOMAIN messages :
                     Unselected(messages'[j]) = Unselected(messages[j])
              /\ messages'[Len(messages')].from = "user"
              /\ messages'[Len(messages')].text = requests'[Len(requests')].value
              /\ flowFinished /\ currentPausedFor = NoPause
              /\ UNCHANGED <<currentPausedFor, flowFinished, sessionId>>
       /\ last'.op = "ask" =>
              /\ Len(messages') = Len(messages) + 1
              /\ SubSeq(messages', 1, Len(messages)) = messages
              /\ messages[Len(messages)].from = "user"
              /\ messages[Len(messages)].text = requests[last'.target].value
              /\ messages'[Len(messages')].from = "bot"
              /\ flowFinished /\ currentPausedFor = NoPause
              /\ UNCHANGED <<currentPausedFor, flowFinished, sessionId>>]_vars

\* an answer settled behind its question
C9_Witness ==
    /\ last.op = "ask"
    /\ ~AskFailed(last.ask)
    /\ Len(messages) >= 2
    /\ messages[Len(messages)].text = last.ask.answer
    /\ messages[Len(messages) - 1].from = "user"

RespondApologyTexts == {ConnectApologyText, WentWrongText}

\* C10: when a respond call fails (the network, or an error status),
\* exactly one event of the bot with a fixed apology text is appended,
\* currentPausedFor stays null, flowFinished and sessionId keep their values.
C10_RespondFailure ==
    [][(last'.op = "respond" /\ (~last'.flow.net \/ ~last'.flow.ok)) =>
          /\ Len(messages') = Len(messages) + 1
          /\ SubSeq(messages', 1, Len(messages)) = messages
          /\ messages'[Len(messages')].from = "bot"
          /\ messages'[Len(messages')].text \in RespondApologyTexts
          /\ currentPausedFor = NoPause
          /\ currentPausedFor' = NoPause
          /\ flowFinished' = flowFinished
          /\ sessionId' = sessionId]_vars

\* an error status whose body says finished, settled
C10_Witness ==
    /\ last.op = "respond"
    /\ last.flow.net
    /\ ~last.flow.ok
    /\ last.flow.finished
    /\ ~flowFinished
    /\ messages[Len(messages)].text \in RespondApologyTexts

\* the start call has resolved and left no session id behind
StartLeftNoSession ==
    /\ sessionId = ""
    /\ \E i \in DOMAIN requests : requests[i].kind = "start" /\ i \notin pending

StartFallbackTexts == {GreetingText}

\* C11: when the start call fails in transport, exactly one fallback event
\* of the bot with a fixed text is emitted and sessionId stays unset; from
\* then on sessionId stays unset and no submission starts a respond call.
C11_StartFailure ==
    /\ [][(last'.op = "start" /\ ~last'.flow.net) =>
              /\ Len(messages') = Len(messages) + 1
              /\ SubSeq(messages', 1, Len(messages)) = messages
              /\ messages'[Len(messages')].from = "bot"
              /\ messages'[Len(messages')].text \in StartFallbackTexts
              /\ sessionId' = ""]_vars
    /\ [][StartLeftNoSession =>
              /\ sessionId' = ""
              /\ \A i \in NewRequests : requests'[i].kind # "respond"]_vars

\* the second half of C11 on its own: without a session id, no respond call
C11_NoFlowWithoutSession ==
    [][StartLeftNoSession =>
          /\ sessionId' = ""
          /\ \A i \in NewRequests : requests'[i].kind # "respond"]_vars

\* the steps that submit something: Enter, the send button, Yes / No, an
\* option button
SubmitOps == {"enter", "send", "confirm", "branch"}

\* the text a submission carries
Submitted(l) == IF l.op \in {"enter", "send"} THEN Trim(l.arg) ELSE l.arg

\* a submission the handlers turn away: nothing to send, a call in flight,
\* or a flow that has no session yet
Rejected(l) ==
    /\ l.op \in SubmitOps
    /\ \/ Submitted(l) = ""
       \/ isLoading
       \/ ~isPreview /\ ~flowFinished /\ sessionId = ""

\* C12: a rejected submission (typed text, confirmation answer or branch
\* option; empty text, a call in flight or no session) changes nothing:
\* the events with every selectedBranch, currentPausedFor, flowFinished,
\* sessionId and isLoading stay as they are and no call is started.
C12_RejectedNoOp ==
    [][Rejected(last') =>
          UNCHANGED <<messages, currentPausedFor, flowFinished, sessionId,
                      isLoading, requests, pending>>]_vars

\* C12 for the submissions that are not option clicks
C12_RejectedTextNoOp ==
    [][(Rejected(last') /\ last'.op # "branch") =>
          UNCHANGED <<messages, currentPausedFor, flowFinished, sessionId,
                      isLoading, requests, pending>>]_vars

\* C13: the step that accepts a flow submission and starts the respond call
\* appends the user event and sets currentPausedFor to null; while the call
\* is pending nothing is appended; its resolution appends only events of the
\* bot (the response's events or the error notice) behind that user event.
C13_OptimisticBeforeSettle ==
    [][/\ (\E i \in NewRequests : requests'[i].kind = "respond") =>
              /\ Len(messages') = Len(messages) + 1
              /\ \A j \in DOMAIN messages :
                     Unselected(messages'[j]) = Unselected(messages[j])
              /\ messages'[Len(messages')].from = "user"
              /\ messages'[Len(messages')].text = requests'[Len(requests')].value
              /\ currentPausedFor' = NoPause
       /\ (PendingCalls({"respond"}) # {} /\ last'.op # "respond") =>
              Len(messages') = Len(messages)
       /\ last'.op = "respond" =>
              /\ SubSeq(messages', 1, Len(messages)) = messages
              /\ messages[Len(messages)].from = "user"
              /\ messages[Len(messages)].text = requests[last'.target].value
              /\ \A j \in (Len(messages) + 1)..Len(messages') :
                     messages'[j].from = "bot"
              /\ RespondThrows(last'.flow) => Len(messages') = Len(messages) + 1
              /\ currentPausedFor = NoPause]_vars

\* the answer to a prompt, with the events of its response behind it
C13_Witness ==
    /\ last.op = "respond"
    /\ FlowApplied(last)
    /\ \E j \in DOMAIN messages :
           /\ j >= 2
           /\ j < Len(messages)
           /\ messages[j].from = "user"
           /\ messages[j].text = requests[last.target].value
           /\ messages[j - 1].showConfirmationButtons
           /\ \A k \in (j + 1)..Len(messages) : messages[k].from = "bot"

RedirectsOf(msgs) == SelectSeq(msgs, LAMBDA m : m.type = "redirect")

OthersOf(msgs) == SelectSeq(msgs, LAMBDA m : m.type # "redirect")

\* the URL a redirect names: its content without the literal prefix, the
\* raw content when nothing else is left
NavTarget(m) ==
    CASE m.content = "Redirecting to: https://x" -> "https://x"
      [] OTHER -> m.content

\* the text of the event a message other than a redirect is shown as
ShownText(m) ==
    IF m.type = "branch" /\ m.awaitingInput THEN ""
    ELSE IF m.content # "" THEN m.content
    ELSE m.message

\* what C14 says of an applied response, nav being the redirects that
\* navigate: no event for a redirect, one window.open per member of nav,
\* one event for every other message
RedirectsApplied(nav) ==
    LET msgs == last'.flow.messages
        base == IF last'.op = "start" THEN 0 ELSE Len(messages)
        others == OthersOf(msgs)
    IN  /\ Len(messages') =
               base + Len(others) + (IF last'.flow.finished THEN 1 ELSE 0)
        /\ SubSeq(messages', 1, base) = SubSeq(messages, 1, base)
        /\ \A j \in 1..Len(others) :
               /\ messages'[base + j].from = "bot"
               /\ messages'[base + j].text = ShownText(others[j])
        /\ opened' = opened \o [j \in 1..Len(nav) |-> NavTarget(nav[j])]

\* C14 as stated: every redirect of a start or respond response yields no
\* event and exactly one window.open of its target; every other message
\* yields its own event.
C14_RedirectsOriginal ==
    [][FlowApplied(last') =>
          RedirectsApplied(RedirectsOf(last'.flow.messages))]_vars

\* C14: every redirect of a start or respond response yields no event, and
\* exactly one window.open of its target when its content is not empty
\* (none when it is empty); every other message yields its own event.
C14_Redirects ==
    [][FlowApplied(last') =>
          RedirectsApplied(SelectSeq(RedirectsOf(last'.flow.messages),
                                     LAMBDA m : m.content # ""))]_vars

\* a respond response of one redirect and one plain message: one more
\* event, one more window.open
C14_Witness ==
    /\ last.op = "respond"
    /\ FlowApplied(last)
    /\ ~last.flow.finished
    /\ Len(last.flow.messages) = 2
    /\ last.flow.messages[1].type = "redirect"
    /\ last.flow.messages[1].content = "Redirecting to: https://x"
    /\ last.flow.messages[2].type = "text"
    /\ opened # <<>>
    /\ opened[Len(opened)] = "https://x"
    /\ messages[Len(messages)].text = "Hi"
    /\ messages[Len(messages) - 1].from = "user"

\* the position in the log of the event of the j-th message of the applied
\* response that is not a redirect
EventOf(j) == (IF last'.op = "start" THEN 0 ELSE Len(messages)) + j

\* C15: every message of type "branch" flagged awaitingInput becomes exactly
\* one event of the bot with empty text, showBranchOptions set and
\* branchOptions equal to the message's options in order (the empty
\* sequence when there are none), whatever its content is.
C15_BranchNormalized ==
    [][FlowApplied(last') =>
          LET others == OthersOf(last'.flow.messages)
          IN  /\ Len(messages') >= EventOf(Len(others))
              /\ \A j \in 1..Len(others) :
                     (others[j].type = "branch" /\ others[j].awaitingInput) =>
                         /\ messages'[EventOf(j)].from = "bot"
                         /\ messages'[EventOf(j)].text = ""
                         /\ messages'[EventOf(j)].showBranchOptions
                         /\ ~messages'[EventOf(j)].showConfirmationButtons
                         /\ messages'[EventOf(j)].hasOptions
                         /\ messages'[EventOf(j)].branchOptions = others[j].options
                         /\ messages'[EventOf(j)].selectedBranch = ""]_vars

\* a flagged branch message with content and without options, behind a
\* flagged branch message with two options
C15_Witness ==
    /\ last.op = "respond"
    /\ FlowApplied(last)
    /\ Len(last.flow.messages) = 2
    /\ last.flow.messages[1] = Raw("branch", "", "", TRUE, <<"A", "B">>)
    /\ last.flow.messages[2] = Raw("branch", "Pick", "M", TRUE, <<>>)
    /\ messages[Len(messages)].text = ""
    /\ messages[Len(messages)].showBranchOptions
    /\ messages[Len(messages)].branchOptions = <<>>
    /\ messages[Len(messages) - 1].branchOptions = <<"A", "B">>

\* a start exchange that succeeded: a body with a success status that the
\* code could read to its end
StartSucceeded(r) == r.net /\ r.ok /\ r.iterable

\* C16: sessionId is absent until the first successful start response;
\* every respond call is started with a present sessionId, the one the
\* start returned; once set, sessionId never changes.
C16_SessionId ==
    /\ [][sessionId' # sessionId =>
              /\ sessionId = ""
              /\ last'.op = "start"
              /\ StartSucceeded(last'.flow)
              /\ sessionId' = last'.flow.sessionId]_vars
    /\ [][\A i \in NewRequests :
              requests'[i].kind = "respond" =>
                  /\ requests'[i].sessionId # ""
                  /\ requests'[i].sessionId = sessionId]_vars

\* C16 without the word "successful": sessionId is set once, by the start
\* resolution whose body carries it, and every respond call carries it
C16_SessionIdSetOnce ==
    /\ [][sessionId' # sessionId =>
              /\ sessionId = ""
              /\ last'.op = "start"
              /\ last'.flow.net
              /\ sessionId' = last'.flow.sessionId]_vars
    /\ [][\A i \in NewRequests :
              requests'[i].kind = "respond" =>
                  /\ requests'[i].sessionId # ""
                  /\ requests'[i].sessionId = sessionId]_vars

\* the respond call started by the step carries value v in field f and
\* nothing else
Carries(f, v) ==
    \A i \in NewRequests :
        requests'[i].kind = "respond" =>
            /\ requests'[i].field = f
            /\ requests'[i].value = v

\* C17 as stated: a respond request caused by a confirmation answer
\* carries it as {input: answer}, one caused by an option click carries
\* {optionIndexOrLabel: option}, whatever currentPausedFor is.
C17_RequestShapeOriginal ==
    [][/\ last'.op = "confirm" => Carries("input", last'.arg)
       /\ last'.op = "branch" => Carries("optionIndexOrLabel", last'.arg)]_vars

\* C17: a respond request caused by an option click carries
\* {optionIndexOrLabel: option} whatever currentPausedFor is; one caused
\* by a confirmation answer carries {input: answer} unless
\* currentPausedFor.type is "branch" at the click, and then it carries
\* {optionIndexOrLabel: answer}.
C17_RequestShape ==
    [][/\ last'.op = "confirm" =>
              Carries(IF currentPausedFor.type = "branch"
                      THEN "optionIndexOrLabel" ELSE "input", last'.arg)
       /\ last'.op = "branch" => Carries("optionIndexOrLabel", last'.arg)]_vars

\* an answer sent as input, and a later answer, clicked under the old
\* prompt while paused for a branch, sent as optionIndexOrLabel
C17_Witness ==
    /\ last.op = "confirm"
    /\ requests[Len(requests)].kind = "respond"
    /\ Len(requests) \in pending
    /\ requests[Len(requests)].field = "optionIndexOrLabel"
    /\ requests[Len(requests)].value = last.arg
    /\ \E i \in DOMAIN requests :
           /\ requests[i].kind = "respond"
           /\ requests[i].field = "input"
           /\ requests[i].value \in ConfirmAnswers

\* C18: an event has selectedBranch set only if a respond call carrying
\* that option as optionIndexOrLabel has been started.
C18_SelectedWasSent ==
    \A i \in DOMAIN messages :
        messages[i].selectedBranch # "" =>
            \E j \in DOMAIN requests :
                /\ requests[j].kind = "respond"
                /\ requests[j].field = "optionIndexOrLabel"
                /\ requests[j].value = messages[i].selectedBranch

\* C18 for the option clicks that are accepted as flow submissions
C18_AcceptedWasSent ==
    [][(last'.op = "branch" /\ ~Rejected(last') /\ ~flowFinished) =>
          /\ messages'[last'.target].selectedBranch = last'.arg
          /\ \E j \in NewRequests :
                 /\ requests'[j].kind = "respond"
                 /\ requests'[j].field = "optionIndexOrLabel"
                 /\ requests'[j].value = last'.arg]_vars

TextOps == {"enter", "send"}

\* paused.kind is none, branch or confirmation
NotAQuestion ==
    \/ ~currentPausedFor.present
    \/ currentPausedFor.type \in {"branch", "confirmation"}

\* paused is none, or a branch, or a descriptor that sets
\* showConfirmationButtons
TextBlocked ==
    \/ ~currentPausedFor.present
    \/ currentPausedFor.type = "branch"
    \/ currentPausedFor.showConfirmationButtons

\* typed text is not taken: the input box and the send button are disabled
TextRefused == InputDisabled /\ SendDisabled

\* C19 as stated (outside preview mode): while flowFinished is false and
\* paused.kind is none, branch or confirmation, the text input is disabled
\* and typed text causes no event and no call.
C19_TextGuardOriginal ==
    /\ []((~isPreview /\ ~flowFinished /\ NotAQuestion) => TextRefused)
    /\ [][(~isPreview /\ ~flowFinished /\ NotAQuestion /\ last'.op \in TextOps) =>
              /\ messages' = messages
              /\ requests' = requests]_vars

\* C19: outside preview mode, typed text is accepted only when flowFinished
\* is true or the session is paused for something that is not a branch and
\* whose descriptor does not set showConfirmationButtons; otherwise the
\* text input is disabled and typed text causes no event and no call.
C19_TextGuard ==
    /\ []((~isPreview /\ ~flowFinished /\ TextBlocked) => TextRefused)
    /\ [][(~isPreview /\ ~flowFinished /\ TextBlocked /\ last'.op \in TextOps) =>
              /\ messages' = messages
              /\ requests' = requests]_vars
    /\ [][(~isPreview /\ last'.op \in TextOps /\ requests' # requests) =>
              flowFinished \/ ~TextBlocked]_vars

\* text typed and sent under a confirmation prompt whose descriptor has no
\* showConfirmationButtons; with the call in flight the input is disabled
C19_Witness ==
    /\ last.op \in TextOps
    /\ ~flowFinished
    /\ Len(requests) \in pending
    /\ requests[Len(requests)].kind = "respond"
    /\ requests[Len(requests)].field = "input"
    /\ requests[Len(requests)].value = "q"
    /\ Len(messages) >= 2
    /\ messages[Len(messages) - 1].showConfirmationButtons
    /\ TextBlocked
    /\ TextRefused

\* the step taken is the step of the code of every surface on the same
\* state and the same input: a submission
SameSubmission ==
    /\ last'.op \in TextOps =>
           /\ handleSendMessage(messages, "", FALSE)
           /\ ChatBot_handleSendMessage(messages, "", FALSE)
           /\ PublicBotChatPage_handleSendMessage(messages, "", FALSE)
    /\ last'.op = "confirm" =>
           /\ handleConfirmationClick(last'.arg)
           /\ ChatBot_handleConfirmationClick(last'.arg)
           /\ PublicBotChatPage_handleConfirmationClick(last'.arg)
    /\ last'.op = "branch" =>
           /\ handleBranchOptionClick(last'.arg, messages[last'.target].id)
           /\ ChatBot_handleBranchOptionClick(last'.arg, messages[last'.target].id)
           /\ PublicBotChatPage_handleBranchOptionClick(last'.arg,
                                                        messages[last'.target].id)

\* ... the resolution of a start call
SameStart ==
    /\ initFlow(last'.flow, now')
    /\ ChatBot_initFlow(last'.flow, now')
    /\ PublicBotChatPage_initFlow(last'.flow, now')

\* ... the resolution of a respond or ask call; the apology for a failed
\* respond call is one event of the bot whose text may differ
SameSettle ==
    /\ (last'.op = "respond" /\ ~RespondThrows(last'.flow)) =>
           /\ handleSendMessageResolved(last'.flow, now')
           /\ ChatBot_handleSendMessageResolved(last'.flow, now')
           /\ PublicBotChatPage_handleSendMessageResolved(last'.flow, now')
    /\ (last'.op = "respond" /\ RespondThrows(last'.flow)) =>
           /\ \E txt \in RespondApologyTexts :
                  messages' = Append(messages, BotMsg(MkId(now', draws'), txt))
           /\ ~isLoading'
           /\ UNCHANGED <<sessionId, currentPausedFor, flowFinished>>
    /\ last'.op = "ask" =>
           /\ handleAskQuestionResolved(last'.ask, now')
           /\ ChatBot_handleAskQuestionResolved(last'.ask, now')
           /\ PublicBotChatPage_handleAskQuestionResolved(last'.ask, now')

\* C20: outside preview mode the three surfaces are the same state machine:
\* from the same state, the same user action or call outcome (failures of
\* start, respond and ask included) takes each of them to the same
\* sessionId, currentPausedFor, flowFinished and isLoading and to logs of
\* equal length whose events agree on origin, prompt kind, branchOptions
\* and selectedBranch.
C20_SameMachine ==
    [][~isPreview =>
          /\ SameSubmission
          /\ last'.op = "start" => SameStart
          /\ SameSettle]_vars

\* C20 for every step but a start call that fails
C20_SameMachineButFailedStart ==
    [][~isPreview =>
          /\ SameSubmission
          /\ (last'.op = "start" /\ ~StartThrows(last'.flow)) => SameStart
          /\ SameSettle]_vars

\* C21: a start response with a non-success status is handled like a
\* network error: one fallback event of the bot with a fixed text is
\* emitted, and the body is neither normalized into events nor used to set
\* sessionId, currentPausedFor or flowFinished.
C21_StartProtocolError ==
    [][(last'.op = "start" /\ last'.flow.net /\ ~last'.flow.ok) =>
          /\ Len(messages') = Len(messages) + 1
          /\ SubSeq(messages', 1, Len(messages)) = messages
          /\ messages'[Len(messages')].from = "bot"
          /\ messages'[Len(messages')].text \in StartFallbackTexts
          /\ opened' = opened
          /\ UNCHANGED <<sessionId, currentPausedFor, flowFinished>>]_vars

\* the calls of the given kinds started so far
CallsOf(kinds) == {i \in DOMAIN requests : requests[i].kind \in kinds}

\* the events of the user in the log: one per accepted submission
UserEvents == {j \in DOMAIN messages : messages[j].from = "user"}

\* the step is an accepted submission: it appends the user's event
Accepted ==
    /\ last'.op \in SubmitOps
    /\ Len(messages') = Len(messages) + 1
    /\ messages'[Len(messages')].from = "user"

C23_GenericNormalized ==
    [][FlowApplied(last') =>
          LET others == OthersOf(last'.flow.messages)
          IN  /\ Len(messages') =
                     EventOf(Len(others))
                     + (IF last'.flow.finished THEN 1 ELSE 0)
              /\ \A j \in 1..Len(others) :
                     ~(others[j].type = "branch" /\ others[j].awaitingInput) =>
                         /\ messages'[EventOf(j)].from = "bot"
                         /\ messages'[EventOf(j)].text =
                                (IF others[j].content # "" THEN others[j].content
                                 ELSE others[j].message)
                         /\ messages'[EventOf(j)].showConfirmationButtons =
                                (others[j].type = "confirmation"
                                 /\ others[j].awaitingInput)
                         /\ ~messages'[EventOf(j)].showBranchOptions
                         /\ messages'[EventOf(j)].selectedBranch = ""]_vars

\* a flagged message of an unknown type without content, then a flagged
\* confirmation: two events in that order, the second one a prompt
C23_Witness ==
    /\ last.op = "respond"
    /\ FlowApplied(last)
    /\ ~last.flow.finished
    /\ last.flow.messages =
           <<Raw("card", "", "M", TRUE, <<"A", "B">>),
             Raw("confirmation", "Sure?", "", TRUE, <<>>)>>
    /\ messages[Len(messages) - 1].text = "M"
    /\ ~messages[Len(messages) - 1].showConfirmationButtons
    /\ messages[Len(messages)].text = "Sure?"
    /\ messages[Len(messages)].showConfirmationButtons

\* C24: an event carries branchOptions only when it is a branch prompt
\* (showBranchOptions): the events of generic, confirmation and unflagged
\* branch messages, the user's events and the synthesized notices carry no
\* options, also when the raw message had an options list.  An empty
\* branchOptions is counted as none.
C24_OptionsOnlyOnBranch ==
    \A i \in DOMAIN messages :
        messages[i].branchOptions # <<>> => messages[i].showBranchOptions

\* C24 for what is rendered, and for the events that are not normalized
\* from a raw message
C24_OptionsOnlyOffered ==
    \A i \in DOMAIN messages :
        /\ BranchButtonsShown(messages[i]) => messages[i].showBranchOptions
        /\ (messages[i].from = "user"
            \/ messages[i].text \in CompletionTexts \cup RespondApologyTexts
                                    \cup StartFallbackTexts)
               => ~messages[i].hasOptions

C26_FinishedNotPaused ==
    flowFinished => currentPausedFor = NoPause

\* a start response that finished the flow at once and carried a descriptor
C26_Witness ==
    /\ surface = "embed"
    /\ last.op = "start"
    /\ FlowApplied(last)
    /\ last.flow.finished
    /\ last.flow.awaitingInput.present
    /\ flowFinished

\* a question answered after the flow was finished by a response that
\* carried a descriptor
C26_AskedAfterFinish ==
    /\ flowFinished
    /\ last.op = "ask"
    /\ \E i \in DOMAIN requests : requests[i].kind = "respond"

\* a session exists, is not finished, waits for nothing and has no call in
\* flight
DeadEnd ==
    /\ sessionId # ""
    /\ ~flowFinished
    /\ currentPausedFor = NoPause
    /\ pending = {}

\* the branch events whose option buttons are rendered and enabled
OpenBranchEvents ==
    {i \in DOMAIN messages :
        /\ BranchButtonsShown(messages[i])
        /\ ~BranchButtonDisabled(messages[i])}

\* C27: with a session that is not finished, not paused and has no call in
\* flight, canSendText is false and no confirmation buttons are shown; the
\* only step that issues a call is a click on an option of a branch event
\* with no selected option; with no such event the state is never left and
\* no respond or ask call is issued any more.
C27_DeadEnd ==
    /\ [](DeadEnd =>
              /\ ~CanSendText
              /\ InputDisabled
              /\ SendDisabled
              /\ \A i \in DOMAIN messages : ~ConfirmationButtonsShown(messages[i]))
    /\ [][(DeadEnd /\ (NewRequests # {} \/ messages' # messages)) =>
              /\ last'.op = "branch"
              /\ last'.target \in OpenBranchEvents]_vars
    /\ [][(DeadEnd /\ OpenBranchEvents = {}) =>
              /\ DeadEnd'
              /\ OpenBranchEvents' = {}
              /\ NewRequests = {}
              /\ UNCHANGED <<messages, input, isLoading, requests>>]_vars

\* a click on a disabled option in the state left by a failed respond call:
\* nothing is open and nothing happens
C27_Witness ==
    /\ DeadEnd
    /\ OpenBranchEvents = {}
    /\ last.op = "branchDisabled"
    /\ messages[Len(messages)].text = ConnectApologyText

\* the way out: an open branch event clicked behind a failed respond call
C27_WayOut ==
    /\ last.op = "branch"
    /\ isLoading
    /\ \E i \in DOMAIN messages :
           /\ messages[i].text = ConnectApologyText
           /\ i < Len(messages)

\* C28: once flowFinished is true a click on a branch option never sends
\* the option: the option is marked on the clicked event and on no other,
\* and the click asks the trimmed text of the input box as a question, or
\* does nothing more when that text is empty or a call is in flight; the
\* confirmation buttons take no click any more.
C28_ClickAfterFinished ==
    /\ [][flowFinished => last'.op # "confirm"]_vars
    /\ [][(flowFinished /\ last'.op = "branch") =>
              LET t == last'.target
                  question == Trim(input)
                  marked == SelectBranch(messages, last'.arg, messages[t].id)
              IN  /\ marked[t].selectedBranch = last'.arg
                  /\ \A i \in NewRequests :
                         /\ requests'[i].kind = "ask"
                         /\ requests'[i].field = "question"
                         /\ requests'[i].value = question
                         /\ requests'[i].value # last'.arg
                  /\ IF question = "" \/ isLoading
                     THEN /\ messages' = marked
                          /\ NewRequests = {}
                          /\ UNCHANGED <<input, isLoading>>
                     ELSE /\ Cardinality(NewRequests) = 1
                          /\ messages' = Append(marked, UserMsg(MkId(now, 0), question))
                          /\ input' = ""
                          /\ isLoading'
                  /\ UNCHANGED <<flowFinished, currentPausedFor, sessionId>>]_vars

\* an option clicked after the end of the flow with a question typed: the
\* question is asked and the option is marked
C28_Witness ==
    /\ flowFinished
    /\ last.op = "branch"
    /\ messages[last.target].selectedBranch = last.arg
    /\ isLoading
    /\ requests[Len(requests)].kind = "ask"
    /\ requests[Len(requests)].value = "q"
    /\ messages[Len(messages)].text = "q"

\* an option clicked after the end of the flow with an empty input box:
\* the option is marked and nothing is sent
C28_MarkedOnly ==
    /\ flowFinished
    /\ last.op = "branch"
    /\ messages[last.target].selectedBranch = last.arg
    /\ ~isLoading
    /\ pending = {}
    /\ \A i \in DOMAIN requests : requests[i].kind # "ask"

\* C29: in preview mode no start, respond or ask call is ever issued and
\* sessionId, currentPausedFor and flowFinished keep their initial values;
\* an accepted submission appends its user event at once and starts the
\* timer, the timer appends one canned event of the bot when it fires, and
\* isLoading is true exactly in between, when no step of the user changes
\* the log or starts anything.
C29_Preview ==
    /\ [](isPreview =>
              /\ \A i \in DOMAIN requests : requests[i].kind = "timer"
              /\ sessionId = ""
              /\ currentPausedFor = NoPause
              /\ ~flowFinished
              /\ Cardinality(pending) <= 1
              /\ isLoading <=> (pending # {}))
    /\ [][(isPreview /\ last'.op \in SubmitOps /\ (messages' # messages \/ NewRequests # {})) =>
              /\ ~isLoading
              /\ Submitted(last') # ""
              /\ messages' = Append(messages, UserMsg(MkId(now, 0), Submitted(last')))
              /\ Cardinality(NewRequests) = 1
              /\ isLoading'
              /\ input' = ""]_vars
    /\ [][(isPreview /\ last'.op = "timer") =>
              /\ isLoading
              /\ Len(messages') = Len(messages) + 1
              /\ SubSeq(messages', 1, Len(messages)) = messages
              /\ messages'[Len(messages')].from = "bot"
              /\ messages'[Len(messages')].text = PreviewReplyText
              /\ ~isLoading'
              /\ NewRequests = {}]_vars
    /\ [][(isPreview /\ isLoading /\ last'.op # "timer") =>
              UNCHANGED <<messages, requests, pending, isLoading>>]_vars

\* the canned reply shown behind the user event of a submission
C29_Witness ==
    /\ isPreview
    /\ last.op = "timer"
    /\ ~isLoading
    /\ Len(messages) = Len(PreviewMessages) + 2
    /\ messages[Len(messages) - 1].from = "user"
    /\ messages[Len(messages) - 1].text = "q"
    /\ messages[Len(messages)].text = PreviewReplyText

\* the summary box is rendered: {showSummary && summary && ...}
SummaryDisplayed == showSummary /\ summary # <<>>

\* C30: on the Sessions page a summary that is displayed was generated from
\* the messages of the session that is selected, whatever the order in
\* which the selectSession and summarizeSession calls resolve.
C30_SummaryOfSelected ==
    SummaryDisplayed =>
        /\ selectedSession # NoSession
        /\ summary = Summarize(selectedSession.messages)

\* selectSession clears summary, showSummary and summarizerError before it
\* fetches the session
C30_SelectClears ==
    [][last'.op = "select" =>
          /\ summary' = <<>>
          /\ ~showSummary'
          /\ summarizerError' = ""]_vars

\* the summary of a session shown while another session is selected
C30_StaleSummary ==
    /\ SummaryDisplayed
    /\ last.op = "summaryResolved"
    /\ last.arg # selectedSession.id

====
